---------------------------- MODULE Spec2Model ----------------------------
(* go-m17gateway-monitor: the capture -> decode -> filter -> codec -> sink  *)
(* pipeline of client.go, the callsign decoder, the codec2 binding and the  *)
(* process lifecycle of main.                                               *)
EXTENDS Integers, Sequences, FiniteSets, TLC

(***************************************************************************)
(* Bounds of the model.                                                    *)
(***************************************************************************)
\* number of packets the capture facility delivers in one run
MaxPackets == 2

(***************************************************************************)
(* Go slices and fixed-width integers.                                     *)
(***************************************************************************)
\* s[a:b] of Go (0-based, half-open) on a 1-based sequence
Slice(s, a, b) == SubSeq(s, a + 1, b)

\* binary.BigEndian.Uint16
BigEndianUint16(b) == b[1] * 256 + b[2]

\* uint16(sample) for an int16 sample: two's complement
Uint16OfInt16(sample) == sample % 65536

\* faulty variant of LittleEndianPutUint16: high byte first
PutUint16BigEndian(v) == << v \div 256, v % 256 >>

\* binary.LittleEndian.PutUint16(buf, v): low byte first
LittleEndianPutUint16(v) == << v % 256, v \div 256 >>

(***************************************************************************)
(* uint64 arithmetic of decodeCallsign, on four 16-bit limbs (most         *)
(* significant first) so that 48-bit addresses stay exact.                 *)
(***************************************************************************)
U64Zero == << 0, 0, 0, 0 >>

\* a*m + c on uint64 (wraps at 2^64), for small m and c
U64MulAdd(a, m, c) ==
  LET t4 == a[4] * m + c
      t3 == a[3] * m + (t4 \div 65536)
      t2 == a[2] * m + (t3 \div 65536)
      t1 == a[1] * m + (t2 \div 65536)
  IN  << t1 % 65536, t2 % 65536, t3 % 65536, t4 % 65536 >>

\* a / d on uint64, for small d
U64Div(a, d) ==
  LET c1 == a[1]
      c2 == (c1 % d) * 65536 + a[2]
      c3 == (c2 % d) * 65536 + a[3]
      c4 == (c3 % d) * 65536 + a[4]
  IN  << c1 \div d, c2 \div d, c3 \div d, c4 \div d >>

\* a % d on uint64, for small d
U64Mod(a, d) ==
  LET c1 == a[1]
      c2 == (c1 % d) * 65536 + a[2]
      c3 == (c2 % d) * 65536 + a[3]
      c4 == (c3 % d) * 65536 + a[4]
  IN  c4 % d

(***************************************************************************)
(* Callsign decoder.                                                       *)
(***************************************************************************)
\* base40Chars, one element per character (index 0 of Go is element 1)
base40Chars ==
  << " ", "A", "B", "C", "D", "E", "F", "G", "H", "I", "J", "K", "L", "M",
     "N", "O", "P", "Q", "R", "S", "T", "U", "V", "W", "X", "Y", "Z",
     "0", "1", "2", "3", "4", "5", "6", "7", "8", "9", "-", "/", "." >>

\* for _, b := range encoded { address = address*256 + uint64(b) }
RECURSIVE AccumulateAddress(_, _)
AccumulateAddress(encoded, address) ==
  IF encoded = << >> THEN address
  ELSE AccumulateAddress(Tail(encoded), U64MulAdd(address, 256, Head(encoded)))

\* for address > 0 { callsign += base40Chars[address % 40]; address /= 40 }
RECURSIVE CallsignLoop(_, _)
CallsignLoop(address, callsign) ==
  IF address = U64Zero THEN callsign
  ELSE CallsignLoop(U64Div(address, 40),
                    Append(callsign, base40Chars[U64Mod(address, 40) + 1]))

\* faulty variant of decodeCallsign: most significant symbol first
RECURSIVE CallsignLoopPrepend(_, _)
CallsignLoopPrepend(address, callsign) ==
  IF address = U64Zero THEN callsign
  ELSE CallsignLoopPrepend(U64Div(address, 40),
                       << base40Chars[U64Mod(address, 40) + 1] >> \o callsign)

decodeCallsignPrepend(encoded) == CallsignLoopPrepend(AccumulateAddress(encoded, U64Zero), << >>)

\* decodeCallsign
decodeCallsign(encoded) == CallsignLoop(AccumulateAddress(encoded, U64Zero), << >>)


(***************************************************************************)
(* Wire format and the inputs of the model.                                *)
(***************************************************************************)
\* MagicM17 = "M17 " as ASCII bytes
MagicM17 == << 77, 49, 55, 32 >>

Uint16Bytes(v) == << v \div 256, v % 256 >>

\* a datagram laid out as handleM17 reads it: magic, streamID, LICH (dst, src,
\* type, meta), frameNumber, payload, reserved
MkDatagram(magic, streamID, dst, src, typ, meta, frameNumber, payload, reserved) ==
  magic \o Uint16Bytes(streamID) \o dst \o src \o Uint16Bytes(typ) \o meta
        \o Uint16Bytes(frameNumber) \o payload \o reserved

AddrA == << 0, 0, 0, 0, 18, 52 >>
AddrB == << 0, 0, 75, 19, 209, 6 >>
AddrZero == << 0, 0, 0, 0, 0, 0 >>
MetaA == [i \in 1..14 |-> 0]
MetaB == [i \in 1..14 |-> 200 + i]
PayloadA == [i \in 1..16 |-> i]
PayloadB == [i \in 1..16 |-> 255 - i]

\* type field values: bit 0 stream, bits 1-2 data type, bits 3-4 encryption
TypVoice == 1 + 2 * 2
TypVoiceData == 1 + 3 * 2 + 1 * 32 + 9 * 128
TypPacketVoice == 0 + 2 * 2
TypEncryptedVoice == 1 + 2 * 2 + 1 * 8
TypData == 1 + 1 * 2

VoiceDatagram(typ) ==
  MkDatagram(MagicM17, 4660, AddrA, AddrB, typ, MetaA, 7, PayloadA, << 0, 0 >>)

\* the UDP payloads the capture facility may deliver
Datagrams ==
  { << 77, 49, 55 >>,
    MkDatagram(<< 77, 49, 55, 33 >>, 4660, AddrA, AddrB, TypVoice, MetaA, 7,
               PayloadA, << 0, 0 >>),
    SubSeq(VoiceDatagram(TypVoice), 1, 53),
    VoiceDatagram(TypVoice),
    MkDatagram(MagicM17, 65535, AddrZero, AddrA, TypVoiceData, MetaB, 65535,
               PayloadB, << 9, 9, 9 >>),
    VoiceDatagram(TypPacketVoice),
    VoiceDatagram(TypEncryptedVoice),
    VoiceDatagram(TypData) }

\* a captured packet: its decoded layer and, for UDP, the payload
Packets ==
  { [layer |-> "udp", payload |-> d] : d \in Datagrams }
    \cup { [layer |-> "other", payload |-> << >>] }

NoPacket == [layer |-> "nil", payload |-> << >>]

\* codec2_bits_per_frame as the library may report it (3200 bps: 64)
CodecBitsPerFrame == { 64, 48 }

\* sample buffers codec2_decode may fill (codec2_samples_per_frame samples each)
CodecAudio == { << -2 >>, << 258, -32768 >> }

(***************************************************************************)
(* Program state.                                                          *)
(***************************************************************************)
VARIABLES
  mainPc,      \* position of main
  res,         \* handle, codec2, player of Client: "nil", "open" or "closed"
  ctxDone,     \* c.ctx is cancelled
  listenPc,    \* position of the listen goroutine
  queue,       \* packets captured and not yet received by listen
  packet,      \* listen: the packet of the current iteration
  frame,       \* handleM17: the parsed fields, << >> before extraction
  audio1,      \* handleM17: result of the first Decode
  audio2,      \* handleM17: result of the second Decode
  codecState,  \* number of frames codec2_decode has consumed
  sink,        \* buffers passed to player.Write, in order
  delivered,   \* history: every packet the capture facility delivered
  log,         \* history: per received packet, the Decode calls made for it
  encoded,     \* decodeCallsign: argument
  callsign     \* decodeCallsign: result, << "?" >> before the call

vars == << mainPc, res, ctxDone, listenPc, queue, packet, frame, audio1, audio2,
           codecState, sink, delivered, log, encoded, callsign >>

pipeVars == << mainPc, res, ctxDone, listenPc, queue, packet, frame, audio1,
               audio2, codecState, sink, delivered, log >>

exited == mainPc = "exited"

NotCalled == << "?" >>

(***************************************************************************)
(* handleM17: field extraction and the type field.                         *)
(***************************************************************************)
\* typ & 0x0001
packetStreamIndicator(typ) == typ % 2

\* faulty variant of dataTypeIndicator: mask 0x0001
dataTypeIndicatorOneBit(typ) == (typ \div 2) % 2

\* (typ >> 1) & 0x0003
dataTypeIndicator(typ) == (typ \div 2) % 4

\* (typ >> 3) & 0x0003
encryptionType(typ) == (typ \div 8) % 4

\* (typ >> 5) & 0x0003
encryptionSubtype(typ) == (typ \div 32) % 4

\* (typ >> 7) & 0x000F
channelAccessNumber(typ) == (typ \div 128) % 16

\* the locals of handleM17 after "Parse M17 packet fields", "Parse LICH fields"
\* and "Parse Type field"
ParseM17(p) ==
  LET lich == Slice(p, 6, 34)
      typ == BigEndianUint16(Slice(lich, 12, 14))
  IN  [ streamID |-> BigEndianUint16(Slice(p, 4, 6)),
        lich |-> lich,
        frameNumber |-> BigEndianUint16(Slice(p, 34, 36)),
        payload |-> Slice(p, 36, 52),
        dst |-> decodeCallsign(Slice(lich, 0, 6)),
        src |-> decodeCallsign(Slice(lich, 6, 12)),
        typ |-> typ,
        meta |-> Slice(lich, 14, 28),
        packetStreamIndicator |-> packetStreamIndicator(typ),
        dataTypeIndicator |-> dataTypeIndicator(typ),
        encryptionType |-> encryptionType(typ),
        encryptionSubtype |-> encryptionSubtype(typ),
        channelAccessNumber |-> channelAccessNumber(typ) ]

\* faulty variant of M17TooShort: off by one
M17TooShortBy1(p) == Len(p) < 53

\* len(packet) < 54 of handleM17
M17TooShort(p) == Len(p) < 54

(***************************************************************************)
(* codec2.Decode and playAudio.                                            *)
(***************************************************************************)
\* Decode(bits), with nbit and the samples codec2_decode writes as the
\* library supplies them
Decode(bits, nbit, samples) ==
  IF Len(bits) # nbit \div 8
    THEN [err |-> TRUE, audio |-> << >>]
    ELSE [err |-> FALSE, audio |-> samples]

\* buf of playAudio: every sample as uint16, little-endian
RECURSIVE PcmBytes(_)
PcmBytes(audio) ==
  IF audio = << >> THEN << >>
  ELSE LittleEndianPutUint16(Uint16OfInt16(Head(audio))) \o PcmBytes(Tail(audio))

\* audio := append(audio1, audio2...)
Combine(a1, a2) == a1 \o a2

(***************************************************************************)
(* History bookkeeping.                                                    *)
(***************************************************************************)
\* the entry of the packet in flight is the last one
LogCall(l, bits, r) ==
  [l EXCEPT ![Len(l)].calls = Append(@, [bits |-> bits, err |-> r.err, audio |-> r.audio])]

\* handleM17 and handlePacket return to the loop of listen
ReturnToRange ==
  /\ listenPc' = "range"
  /\ packet' = NoPacket
  /\ frame' = << >>
  /\ audio1' = << >>
  /\ audio2' = << >>

(***************************************************************************)
(* main and NewClient.                                                     *)
(***************************************************************************)
listenVars == << listenPc, queue, packet, frame, audio1, audio2, codecState,
                 sink, delivered, log >>

\* pcap.OpenLive; on error NewClient returns it and main calls log.Fatalf
OpenLive ==
  /\ mainPc = "OpenLive"
  /\ \/ /\ res' = [res EXCEPT !.handle = "open"]
        /\ mainPc' = "SetBPFFilter"
     \/ /\ mainPc' = "exited"
        /\ UNCHANGED res
  /\ UNCHANGED << ctxDone, listenVars, encoded, callsign >>

\* handle.SetBPFFilter
SetBPFFilter ==
  /\ mainPc = "SetBPFFilter"
  /\ \/ mainPc' = "codec2New"
     \/ mainPc' = "exited"
  /\ UNCHANGED << res, ctxDone, listenVars, encoded, callsign >>

\* codec2.New(codec2.MODE_3200)
Codec2New ==
  /\ mainPc = "codec2New"
  /\ \/ /\ res' = [res EXCEPT !.codec2 = "open"]
        /\ mainPc' = "otoNewContext"
     \/ /\ mainPc' = "exited"
        /\ UNCHANGED res
  /\ UNCHANGED << ctxDone, listenVars, encoded, callsign >>

\* oto.NewContext, ctx.NewPlayer, context.WithCancel, and the return to main
OtoNewContext ==
  /\ mainPc = "otoNewContext"
  /\ \/ /\ res' = [res EXCEPT !.player = "open"]
        /\ mainPc' = "go"
     \/ /\ mainPc' = "exited"
        /\ UNCHANGED res
  /\ UNCHANGED << ctxDone, listenVars, encoded, callsign >>

\* go client.listen(): the goroutine creates the packet source and ranges
GoListen ==
  /\ mainPc = "go"
  /\ mainPc' = "signal"
  /\ listenPc' = "range"
  /\ UNCHANGED << res, ctxDone, queue, packet, frame, audio1, audio2,
                  codecState, sink, delivered, log, encoded, callsign >>

\* <-sigChan: SIGINT or SIGTERM arrives
Signal ==
  /\ mainPc = "signal"
  /\ mainPc' = "cancel"
  /\ UNCHANGED << res, ctxDone, listenVars, encoded, callsign >>

\* client.cancel()
Cancel ==
  /\ mainPc = "cancel"
  /\ ctxDone' = TRUE
  /\ mainPc' = "return"
  /\ UNCHANGED << res, listenVars, encoded, callsign >>

\* main returns: the process exits and every goroutine with it
MainReturn ==
  /\ mainPc = "return"
  /\ mainPc' = "exited"
  /\ UNCHANGED << res, ctxDone, listenVars, encoded, callsign >>

MainNext ==
  \/ OpenLive
  \/ SetBPFFilter
  \/ Codec2New
  \/ OtoNewContext
  \/ GoListen
  \/ Signal
  \/ Cancel
  \/ MainReturn

(***************************************************************************)
(* The capture facility.                                                   *)
(***************************************************************************)
\* a packet matching the filter arrives on the open handle
Capture ==
  /\ ~exited
  /\ res.handle = "open"
  /\ Len(delivered) < MaxPackets
  /\ \E p \in Packets :
       /\ queue' = Append(queue, p)
       /\ delivered' = Append(delivered, p)
  /\ UNCHANGED << mainPc, res, ctxDone, listenPc, packet, frame, audio1, audio2,
                  codecState, sink, log, encoded, callsign >>

(***************************************************************************)
(* listen, handlePacket, handleM17, playAudio.                             *)
(***************************************************************************)
\* faulty variant of Range: the newest queued packet first
RangeNewestFirst ==
  /\ ~exited
  /\ listenPc = "range"
  /\ queue # << >>
  /\ packet' = queue[Len(queue)]
  /\ queue' = SubSeq(queue, 1, Len(queue) - 1)
  /\ log' = Append(log, [pkt |-> queue[Len(queue)], handled |-> FALSE, calls |-> << >>])
  /\ listenPc' = "select"
  /\ UNCHANGED << mainPc, res, ctxDone, frame, audio1, audio2, codecState, sink,
                  delivered, encoded, callsign >>

\* for packet := range packetSource.Packets(): receive the next packet
Range ==
  /\ ~exited
  /\ listenPc = "range"
  /\ queue # << >>
  /\ packet' = Head(queue)
  /\ queue' = Tail(queue)
  /\ log' = Append(log, [pkt |-> Head(queue), handled |-> FALSE, calls |-> << >>])
  /\ listenPc' = "select"
  /\ UNCHANGED << mainPc, res, ctxDone, frame, audio1, audio2, codecState, sink,
                  delivered, encoded, callsign >>

\* select { case <-c.ctx.Done(): return; default: ... c.handlePacket(udp.Payload) }
Select ==
  /\ ~exited
  /\ listenPc = "select"
  /\ IF ctxDone
       THEN /\ listenPc' = "returned"
            /\ packet' = NoPacket
            /\ UNCHANGED log
       ELSE IF packet.layer = "udp"
         THEN /\ listenPc' = "handlePacket"
              /\ log' = [log EXCEPT ![Len(log)].handled = TRUE]
              /\ UNCHANGED packet
         ELSE /\ listenPc' = "range"
              /\ packet' = NoPacket
              /\ UNCHANGED log
  /\ UNCHANGED << mainPc, res, ctxDone, queue, frame, audio1, audio2, codecState,
                  sink, delivered, encoded, callsign >>

\* handlePacket: length and magic
HandlePacket ==
  /\ ~exited
  /\ listenPc = "handlePacket"
  /\ IF Len(packet.payload) < 4
       THEN ReturnToRange
       ELSE IF Slice(packet.payload, 0, 4) = MagicM17
         THEN /\ listenPc' = "handleM17"
              /\ UNCHANGED << packet, frame, audio1, audio2 >>
         ELSE ReturnToRange
  /\ UNCHANGED << mainPc, res, ctxDone, queue, codecState, sink, delivered, log,
                  encoded, callsign >>

\* handleM17: length check and field extraction
HandleM17 ==
  /\ ~exited
  /\ listenPc = "handleM17"
  /\ IF M17TooShort(packet.payload)
       THEN ReturnToRange
       ELSE /\ frame' = << ParseM17(packet.payload) >>
            /\ listenPc' = "filter"
            /\ UNCHANGED << packet, audio1, audio2 >>
  /\ UNCHANGED << mainPc, res, ctxDone, queue, codecState, sink, delivered, log,
                  encoded, callsign >>

\* handleM17: the three filters before the codec
Filter ==
  /\ ~exited
  /\ listenPc = "filter"
  /\ LET f == frame[1] IN
       IF f.packetStreamIndicator = 0 \/ f.encryptionType # 0
         THEN ReturnToRange
         ELSE IF f.dataTypeIndicator # 2 /\ f.dataTypeIndicator # 3
           THEN ReturnToRange
           ELSE IF Len(f.payload) # 16
             THEN ReturnToRange
             ELSE /\ listenPc' = "decode1"
                  /\ UNCHANGED << packet, frame, audio1, audio2 >>
  /\ UNCHANGED << mainPc, res, ctxDone, queue, codecState, sink, delivered, log,
                  encoded, callsign >>

\* faulty variant of Decode1: the error is not checked
Decode1IgnoresError ==
  /\ ~exited
  /\ listenPc = "decode1"
  /\ \E nbit \in CodecBitsPerFrame, samples \in CodecAudio :
       LET bits == Slice(frame[1].payload, 0, 8)
           r == Decode(bits, nbit, samples)
       IN  /\ log' = LogCall(log, bits, r)
           /\ audio1' = r.audio
           /\ codecState' = IF r.err THEN codecState ELSE codecState + 1
           /\ listenPc' = "decode2"
           /\ UNCHANGED << packet, frame, audio2 >>
  /\ UNCHANGED << mainPc, res, ctxDone, queue, sink, delivered, encoded, callsign >>

\* audio1, err := c.codec2.Decode(payload[:8])
Decode1 ==
  /\ ~exited
  /\ listenPc = "decode1"
  /\ \E nbit \in CodecBitsPerFrame, samples \in CodecAudio :
       LET bits == Slice(frame[1].payload, 0, 8)
           r == Decode(bits, nbit, samples)
       IN  /\ log' = LogCall(log, bits, r)
           /\ IF r.err
                THEN /\ ReturnToRange
                     /\ UNCHANGED codecState
                ELSE /\ audio1' = r.audio
                     /\ codecState' = codecState + 1
                     /\ listenPc' = "decode2"
                     /\ UNCHANGED << packet, frame, audio2 >>
  /\ UNCHANGED << mainPc, res, ctxDone, queue, sink, delivered, encoded, callsign >>

\* faulty variant of Decode2: on error the first half is still played
Decode2PlaysPartial ==
  /\ ~exited
  /\ listenPc = "decode2"
  /\ \E nbit \in CodecBitsPerFrame, samples \in CodecAudio :
       LET bits == Slice(frame[1].payload, 8, Len(frame[1].payload))
           r == Decode(bits, nbit, samples)
       IN  /\ log' = LogCall(log, bits, r)
           /\ audio2' = r.audio
           /\ codecState' = IF r.err THEN codecState ELSE codecState + 1
           /\ listenPc' = "playAudio"
           /\ UNCHANGED << packet, frame, audio1 >>
  /\ UNCHANGED << mainPc, res, ctxDone, queue, sink, delivered, encoded, callsign >>

\* audio2, err := c.codec2.Decode(payload[8:])
Decode2 ==
  /\ ~exited
  /\ listenPc = "decode2"
  /\ \E nbit \in CodecBitsPerFrame, samples \in CodecAudio :
       LET bits == Slice(frame[1].payload, 8, Len(frame[1].payload))
           r == Decode(bits, nbit, samples)
       IN  /\ log' = LogCall(log, bits, r)
           /\ IF r.err
                THEN /\ ReturnToRange
                     /\ UNCHANGED codecState
                ELSE /\ audio2' = r.audio
                     /\ codecState' = codecState + 1
                     /\ listenPc' = "playAudio"
                     /\ UNCHANGED << packet, frame, audio1 >>
  /\ UNCHANGED << mainPc, res, ctxDone, queue, sink, delivered, encoded, callsign >>

\* c.playAudio(append(audio1, audio2...)): serialize and c.player.Write(buf);
\* a Write error is logged only
PlayAudio ==
  /\ ~exited
  /\ listenPc = "playAudio"
  /\ sink' = Append(sink, PcmBytes(Combine(audio1, audio2)))
  /\ ReturnToRange
  /\ UNCHANGED << mainPc, res, ctxDone, queue, codecState, delivered, log,
                  encoded, callsign >>

ListenNext ==
  \/ Range
  \/ Select
  \/ HandlePacket
  \/ HandleM17
  \/ Filter
  \/ Decode1
  \/ Decode2
  \/ PlayAudio

(***************************************************************************)
(* The program.                                                            *)
(***************************************************************************)
Init ==
  /\ mainPc = "OpenLive"
  /\ res = [handle |-> "nil", codec2 |-> "nil", player |-> "nil"]
  /\ ctxDone = FALSE
  /\ listenPc = "idle"
  /\ queue = << >>
  /\ packet = NoPacket
  /\ frame = << >>
  /\ audio1 = << >>
  /\ audio2 = << >>
  /\ codecState = 0
  /\ sink = << >>
  /\ delivered = << >>
  /\ log = << >>
  /\ encoded = << >>
  /\ callsign = NotCalled

Next == MainNext \/ Capture \/ ListenNext

Spec == Init /\ [][Next]_vars

(***************************************************************************)
(* decodeCallsign on its own: every 6-byte input over CallsignBytes.       *)
(***************************************************************************)
CallsignBytes == { 0, 1, 18, 52, 255 }

InitCallsign ==
  /\ mainPc = "OpenLive"
  /\ res = [handle |-> "nil", codec2 |-> "nil", player |-> "nil"]
  /\ ctxDone = FALSE
  /\ listenPc = "idle"
  /\ queue = << >>
  /\ packet = NoPacket
  /\ frame = << >>
  /\ audio1 = << >>
  /\ audio2 = << >>
  /\ codecState = 0
  /\ sink = << >>
  /\ delivered = << >>
  /\ log = << >>
  /\ \E b1, b2, b3, b4, b5, b6 \in CallsignBytes :
       encoded = << b1, b2, b3, b4, b5, b6 >>
  /\ callsign = NotCalled

\* callsign := decodeCallsign(encoded)
CallDecodeCallsign ==
  /\ callsign = NotCalled
  /\ callsign' = decodeCallsign(encoded)
  /\ UNCHANGED << pipeVars, encoded >>

SpecCallsign == InitCallsign /\ [][CallDecodeCallsign]_vars

(***************************************************************************)
(* handleM17 on its own: one tagged datagram per value of the type field,  *)
(* handed to handleM17 by a running listen.                                *)
(***************************************************************************)
FilterDatagram(typ, other) ==
  IF other = 1
    THEN MkDatagram(MagicM17, 4660, AddrA, AddrB, typ, MetaA, 7, PayloadA, << 0, 0 >>)
    ELSE MkDatagram(MagicM17, 65535, AddrZero, AddrA, typ, MetaB, 65535, PayloadB,
                    << 9, 9, 9 >>)

InitFilter ==
  /\ mainPc = "signal"
  /\ res = [handle |-> "open", codec2 |-> "open", player |-> "open"]
  /\ ctxDone = FALSE
  /\ listenPc = "handleM17"
  /\ queue = << >>
  /\ \E typ \in 0..65535, other \in { 1, 2 } :
       LET p == [layer |-> "udp", payload |-> FilterDatagram(typ, other)]
       IN  /\ packet = p
           /\ delivered = << p >>
           /\ log = << [pkt |-> p, handled |-> TRUE, calls |-> << >>] >>
  /\ frame = << >>
  /\ audio1 = << >>
  /\ audio2 = << >>
  /\ codecState = 0
  /\ sink = << >>
  /\ encoded = << >>
  /\ callsign = NotCalled

NextFilter == HandleM17 \/ Filter \/ Decode1

SpecFilter == InitFilter /\ [][NextFilter]_vars

(***************************************************************************)
(* The wire format and the policy as the design states them, used by the   *)
(* properties below.                                                       *)
(***************************************************************************)
Bit(v, k) == (v \div (2 ^ k)) % 2

Tagged(d) == Len(d) >= 4 /\ d[1] = 77 /\ d[2] = 49 /\ d[3] = 55 /\ d[4] = 32

WellFormed(d) == Tagged(d) /\ Len(d) >= 54

TypOf(d) == d[19] * 256 + d[20]

\* stream mode, no encryption, voice or voice+data
VoicePolicy(t) == Bit(t, 0) = 1 /\ Bit(t, 3) = 0 /\ Bit(t, 4) = 0 /\ Bit(t, 2) = 1

PassesChecks(e) ==
  e.handled /\ WellFormed(e.pkt.payload) /\ VoicePolicy(TypOf(e.pkt.payload))

TwoDecodes(e) == Len(e.calls) = 2 /\ ~e.calls[1].err /\ ~e.calls[2].err

Accepted(e) == PassesChecks(e) /\ TwoDecodes(e)

\* the packet of entry i has left handlePacket (or was never handed to it)
Completed(i) == i < Len(log) \/ listenPc \in { "range", "returned" }

\* 16-bit little-endian PCM of a sample sequence, byte by byte
IsPcmOf(buf, samples) ==
  /\ Len(buf) = 2 * Len(samples)
  /\ \A i \in 1..Len(samples) :
       LET u == IF samples[i] < 0 THEN samples[i] + 65536 ELSE samples[i]
       IN  buf[2 * i - 1] = u % 256 /\ buf[2 * i] = u \div 256

(***************************************************************************)
(* C8: decodeCallsign.                                                     *)
(***************************************************************************)
\* the 48-bit big-endian value of a 6-byte address, as limbs
AddressValue(e) ==
  << 0, e[1] * 256 + e[2], e[3] * 256 + e[4], e[5] * 256 + e[6] >>

\* index of a character in the 40-symbol alphabet, 40 if it is not in it
Base40Index(c) ==
  IF \E i \in 0..39 : base40Chars[i + 1] = c
    THEN CHOOSE i \in 0..39 : base40Chars[i + 1] = c
    ELSE 40

\* the value of a least-significant-first base-40 digit string
RECURSIVE Base40Value(_)
Base40Value(cs) ==
  IF cs = << >> THEN U64Zero
  ELSE U64MulAdd(Base40Value(Tail(cs)), 40, Base40Index(Head(cs)))

\* C8: for every 6-byte input decodeCallsign returns (without error) the
\* base-40 digits of the big-endian value of the input, least significant
\* digit first, through the 40-symbol alphabet, with no padding: at most 10
\* symbols, the most significant one never the zero digit " ", the empty
\* string for value 0, and "T9B" for bytes 00 00 00 00 12 34.
C8_DecodeCallsign ==
  callsign # NotCalled =>
    /\ Len(callsign) <= 10
    /\ \A i \in 1..Len(callsign) : Base40Index(callsign[i]) < 40
    /\ Base40Value(callsign) = AddressValue(encoded)
    /\ callsign # << >> => callsign[Len(callsign)] # " "
    /\ AddressValue(encoded) = U64Zero <=> callsign = << >>
    /\ encoded = << 0, 0, 0, 0, 18, 52 >> => callsign = << "T", "9", "B" >>

\* C8 witness: a 10-symbol callsign has been decoded from a nonzero address
\* whose low digit is the zero digit
C8_Witness ==
  /\ callsign # NotCalled
  /\ Len(callsign) = 10
  /\ encoded[1] = 255
  /\ callsign[1] = " "

(***************************************************************************)
(* C1: the filter of handleM17.                                            *)
(***************************************************************************)
\* C1: a datagram of at least 54 bytes handed to handleM17 reaches the codec
\* (Decode is about to be or has been invoked, first on payload[0:8]) if and
\* only if its type field has bit 0 = 1, bits 3-4 = 0 and bits 1-2 in {2,3};
\* otherwise it is dropped with no codec call; no other bit of the type field
\* and no other field changes the decision.
C1_FilterMatrix ==
  \A i \in 1..Len(log) :
    LET e == log[i]
        d == e.pkt.payload
        reached == (i = Len(log) /\ listenPc \in { "decode1", "decode2" })
                     \/ e.calls # << >>
        dropped == Completed(i) /\ e.calls = << >>
    IN  (e.handled /\ WellFormed(d)) =>
          /\ reached => VoicePolicy(TypOf(d))
          /\ dropped => ~VoicePolicy(TypOf(d))
          /\ e.calls # << >> => e.calls[1].bits = SubSeq(d, 37, 44)

\* C1 witness: a frame whose type field has every bit set except the
\* encryption bits has been decoded
C1_Witness ==
  /\ Len(log) = 1
  /\ TypOf(log[1].pkt.payload) = 65535 - 24
  /\ log[1].calls # << >>
  /\ ~log[1].calls[1].err

(***************************************************************************)
(* C2: rendering order.                                                    *)
(***************************************************************************)
\* the buffers expected in the sink for the first n entries of the log
RECURSIVE AcceptedUpTo(_)
AcceptedUpTo(n) ==
  IF n = 0 THEN << >>
  ELSE IF Accepted(log[n]) /\ Completed(n)
    THEN Append(AcceptedUpTo(n - 1), log[n])
    ELSE AcceptedUpTo(n - 1)

\* C2: listen receives the packets in the order the capture facility
\* delivered them, and the buffers written to the sink are, one for one and
\* in the same order, the accepted datagrams (tag and length valid, filter
\* passed, both decodes succeeded) among those whose processing has finished;
\* each buffer holds that datagram's samples, and equal datagrams are each
\* rendered.
C2_SinkIsAcceptedInOrder ==
  /\ Len(log) <= Len(delivered)
  /\ \A i \in 1..Len(log) : log[i].pkt = delivered[i]
  /\ LET acc == AcceptedUpTo(Len(log))
     IN  /\ Len(sink) = Len(acc)
         /\ \A k \in 1..Len(acc) :
              IsPcmOf(sink[k], acc[k].calls[1].audio \o acc[k].calls[2].audio)

\* C2 witness: the same accepted datagram (same streamID and frameNumber) was
\* delivered twice and both deliveries have been rendered, with different audio
C2_Witness ==
  /\ Len(log) = 2
  /\ log[1].pkt = log[2].pkt
  /\ Len(sink) = 2
  /\ sink[1] # sink[2]

(***************************************************************************)
(* C5: codec failure.                                                      *)
(***************************************************************************)
\* this step logged a Decode call that returned an error
DecodeFailedNow ==
  /\ Len(log') = Len(log)
  /\ Len(log) > 0
  /\ Len(log'[Len(log)].calls) = Len(log[Len(log)].calls) + 1
  /\ log'[Len(log)].calls[Len(log'[Len(log)].calls)].err

\* C5: the step in which Decode returns an error for either half writes
\* nothing to the sink and returns listen to its loop with every local of the
\* frame discarded (so the next datagram finds the pipeline as if the frame
\* had not arrived); and at all times the sink holds no more buffers than
\* there are frames with two successful decodes.
C5_DecodeErrorDropsFrame ==
  [][ /\ DecodeFailedNow =>
           /\ sink' = sink
           /\ listenPc' = "range"
           /\ packet' = NoPacket
           /\ frame' = << >>
           /\ audio1' = << >>
           /\ audio2' = << >>
      /\ Len(sink') <= Cardinality({ i \in 1..Len(log') : TwoDecodes(log'[i]) })
    ]_vars

\* C5 witness: the first half of a frame decoded, the second failed, nothing
\* was written for it, and the next datagram has been rendered
C5_Witness ==
  /\ Len(log) = 2
  /\ Len(log[1].calls) = 2
  /\ ~log[1].calls[1].err
  /\ log[1].calls[2].err
  /\ TwoDecodes(log[2])
  /\ Len(sink) = 1
  /\ listenPc = "range"

(***************************************************************************)
(* C6: length and magic.                                                   *)
(***************************************************************************)
InHandler == listenPc \in { "handlePacket", "handleM17", "filter", "decode1",
                            "decode2", "playAudio" }

\* C6: a datagram shorter than 4 bytes, or without the tag "M17 ", or tagged
\* and shorter than 54 bytes, gets no field extraction and no codec call and
\* adds no sink write; whenever fields are extracted the datagram is tagged,
\* at least 54 bytes long, and the payload is the 16 bytes at offsets 36..51;
\* a tagged datagram of 54 bytes or more is extracted (it reaches the filter,
\* and the codec when the policy admits it); listen returns only on
\* cancellation, never because of a drop.
C6_LengthAndMagic ==
  /\ \A i \in 1..Len(log) :
       (log[i].handled /\ ~WellFormed(log[i].pkt.payload)) => log[i].calls = << >>
  /\ (InHandler /\ ~WellFormed(packet.payload)) => frame = << >>
  /\ frame # << >> =>
       /\ WellFormed(packet.payload)
       /\ Len(frame[1].payload) = 16
       /\ \A j \in 1..16 : frame[1].payload[j] = packet.payload[36 + j]
  /\ listenPc \in { "filter", "decode1", "decode2", "playAudio" } => frame # << >>
  /\ \A i \in 1..Len(log) :
       (Completed(i) /\ PassesChecks(log[i])) => log[i].calls # << >>
  /\ Len(sink) <= Cardinality({ i \in 1..Len(log) :
                                  log[i].handled /\ WellFormed(log[i].pkt.payload) })
  /\ listenPc = "returned" => ctxDone

\* C6 witness: a tagged 53-byte datagram was dropped without a codec call or
\* a sink write, and the tagged 54-byte datagram after it has been decoded
C6_Witness ==
  /\ Len(log) = 2
  /\ log[1].handled
  /\ Tagged(log[1].pkt.payload)
  /\ Len(log[1].pkt.payload) = 53
  /\ log[1].calls = << >>
  /\ Len(log[2].pkt.payload) = 54
  /\ TwoDecodes(log[2])
  /\ Len(sink) = 1

(***************************************************************************)
(* C7: voice assembly and serialization.                                   *)
(***************************************************************************)
\* C7: the step that finishes a frame whose two decodes succeeded submits
\* exactly one buffer; the decodes were made on payload[0:8] and then on
\* payload[8:16] of that datagram; the buffer is 2*(n1+n2) bytes long and
\* holds the first call's samples and then the second call's, each as two
\* bytes, low byte first.
C7_AssembleAndSerialize ==
  [][ ( /\ Len(log) > 0
        /\ TwoDecodes(log[Len(log)])
        /\ InHandler
        /\ listenPc' = "range" ) =>
      LET e == log[Len(log)]
          a1 == e.calls[1].audio
          a2 == e.calls[2].audio
          buf == sink'[Len(sink')]
      IN  /\ Len(sink') = Len(sink) + 1
          /\ SubSeq(sink', 1, Len(sink)) = sink
          /\ e.calls[1].bits = SubSeq(e.pkt.payload, 37, 44)
          /\ e.calls[2].bits = SubSeq(e.pkt.payload, 45, 52)
          /\ Len(buf) = 2 * (Len(a1) + Len(a2))
          /\ IsPcmOf(SubSeq(buf, 1, 2 * Len(a1)), a1)
          /\ IsPcmOf(SubSeq(buf, 2 * Len(a1) + 1, Len(buf)), a2)
    ]_vars

\* C7 witness: a buffer made of a one-sample first half (-2) and a two-sample
\* second half (258, -32768) is in the sink
C7_Witness ==
  \E k \in 1..Len(sink) : sink[k] = << 254, 255, 2, 1, 0, 128 >>

(***************************************************************************)
(* C10: codec invocations per datagram.                                    *)
(***************************************************************************)
RECURSIVE SuccessfulDecodes(_)
SuccessfulDecodes(n) ==
  IF n = 0 THEN 0
  ELSE SuccessfulDecodes(n - 1)
         + Cardinality({ j \in 1..Len(log[n].calls) : ~log[n].calls[j].err })

\* C10: Decode is never called for a datagram that is short, untagged,
\* packet-mode, encrypted or non-voice (nor for a packet not handed to
\* handlePacket); for a datagram that passed every check and whose processing
\* has finished it is called once if the first call failed and twice
\* otherwise; and the codec has consumed exactly the frames of the successful
\* calls, so rejected traffic leaves its state unchanged.
C10_CodecCalls ==
  /\ \A i \in 1..Len(log) :
       LET e == log[i] IN
         /\ ~PassesChecks(e) => e.calls = << >>
         /\ Len(e.calls) <= 2
         /\ (Completed(i) /\ PassesChecks(e)) =>
              /\ Len(e.calls) >= 1
              /\ e.calls[1].err => Len(e.calls) = 1
              /\ ~e.calls[1].err => Len(e.calls) = 2
  /\ codecState = SuccessfulDecodes(Len(log))

\* C10 witness: an encrypted frame was dropped with no codec call and the
\* frame after it failed its first decode, with the codec untouched
C10_Witness ==
  /\ Len(log) = 2
  /\ log[1].handled
  /\ WellFormed(log[1].pkt.payload)
  /\ Bit(TypOf(log[1].pkt.payload), 3) = 1
  /\ log[1].calls = << >>
  /\ Len(log[2].calls) = 1
  /\ log[2].calls[1].err
  /\ listenPc = "range"
  /\ codecState = 0

(***************************************************************************)
(* C3, C4, C9: cancellation and shutdown.                                  *)
(***************************************************************************)
\* C3: once the context is cancelled, a listen that is waiting for the next
\* packet (nothing queued) can stop without a further packet arriving.
C3_CancelStopsWaitingListen ==
  (ctxDone /\ ~exited /\ listenPc = "range" /\ queue = << >>) => ENABLED ListenNext

\* C4: the process never exits while listen is inside handleM17 past the
\* first decode: a frame in flight is finished (dropped or written) first.
C4_NoHalfProcessedFrame ==
  exited => listenPc \notin { "decode2", "playAudio" }

\* C9: when the process has exited, every handle NewClient acquired has been
\* closed.
C9_HandlesReleased ==
  exited => \A r \in DOMAIN res : res[r] # "open"
=============================================================================
